---- MODULE Spec2Model ----
(***************************************************************************)
(* Two form components of the OpenMetadata UI:                             *)
(*   - TestCaseStatusModal (src/unnamed/part_000): the modal that posts a  *)
(*     test-case incident status;                                          *)
(*   - CreateUser (CreateUser.component.tsx): the user / bot creation form.*)
(* Each component is a state machine of its React state, its antd form     *)
(* store, the requests it has in flight and the callbacks it has invoked.  *)
(* Spec is the modal, FairSpec the modal with network completion fair,     *)
(* UserSpec the creation form's passwords and submit, ProfileSpec the rest *)
(* of the creation form and its submit.                                    *)
(***************************************************************************)
EXTENDS Integers, Sequences, FiniteSets, TLC

VARIABLES
    \* ---- TestCaseStatusModal ----
    open,               \* prop open: the modal is shown
    data,               \* prop data: the existing resolution status, or NoData
    currentUser,        \* useApplicationStore().currentUser, or None
    store,              \* antd form store: the four fields of the form
    isLoading,          \* useState isLoading
    inflight,           \* pending postTestCaseIncidentStatus calls (closures)
    calls,              \* callbacks and toasts since the latest submission began
    finishFailed,       \* the submit attempt on the present field values failed validation
    assignedSinceMount, \* history of prop data: Assigned at every render so far
    \* ---- CreateUser ----
    forceBot,               \* prop forceBot: the form creates a bot
    provider,               \* authConfig.provider of the auth context
    saveState,              \* prop saveState
    email,                  \* useState email
    isAdmin,                \* useState isAdmin
    isBot,                  \* useState isBot
    selectedRoles,          \* useState selectedRoles
    selectedTeams,          \* useState selectedTeams
    password,               \* useState password
    confirmPassword,        \* useState confirmPassword
    authMechanism,          \* useState authMechanism
    tokenExpiry,            \* useState tokenExpiry
    ssoClientConfig,        \* useState ssoClientConfig
    passwordGenerator,      \* useState passwordGenerator
    isPasswordGenerating,   \* useState isPasswordGenerating
    generatedPassword,      \* useState generatedPassword
    fieldGeneratedPassword, \* form field generatedPassword
    pwdInflight,            \* pending generateRandomPwd calls (request numbers)
    pwdTimers,              \* pending setTimeout callbacks, in the order they were set
    pwdIssued,              \* number of generateRandomPwd calls made
    pwdFailed,              \* the calls that failed, each shown as an error toast
    saved,                  \* the payload onSave was given for the present field values
    saveRejected            \* the submit attempt on the present field values failed validation

modalVars == <<open, data, currentUser, store, isLoading, inflight, calls,
               finishFailed, assignedSinceMount>>
propVars == <<forceBot, provider>>
profileVars == <<email, isAdmin, isBot, selectedRoles, selectedTeams, authMechanism,
                 tokenExpiry, ssoClientConfig>>
passwordVars == <<password, confirmPassword, passwordGenerator>>
pwdVars == <<isPasswordGenerating, generatedPassword, fieldGeneratedPassword,
             pwdInflight, pwdTimers, pwdIssued, pwdFailed>>
saveVars == <<saved, saveRejected>>
userVars == <<propVars, saveState, profileVars, passwordVars, pwdVars, saveVars>>
vars == <<modalVars, userVars>>

\* JavaScript undefined
None == "undefined"

----------------------------------------------------------------------------
\* Bounds of the model

\* calls to postTestCaseIncidentStatus that may be pending at once
MaxInflight == 2
\* clicks on the generate-password control
MaxGenerate == 3

----------------------------------------------------------------------------
\* Values

Assigned == "Assigned"
Resolved == "Resolved"
\* Object.values(TestCaseResolutionStatusTypes)
TestCaseResolutionStatusTypes == {"New", "Ack", Assigned, Resolved}
\* Object.values(TestCaseFailureReasonType)
TestCaseFailureReasonType == {"Duplicate", "FalsePositive"}
\* what the rich-text editor can report through onTextChange
Comments == {"", "dup of X"}
\* EntityType.USER
EntityTypeUSER == "user"
\* the testCaseFqn prop
testCaseFqn == "suite.table.testCase"

Users == {"u1", "u2"}
IdOf == [u1 |-> "id-1", u2 |-> "id-2"]
NameOf == [u1 |-> "alice", u2 |-> "bob"]
DisplayNameOf == [u1 |-> "Alice A", u2 |-> "Bob B"]

\* an absent entity reference
NoRef == [id |-> None, name |-> None, displayName |-> None, type |-> None]

\* getEntityReferenceFromEntity(user, EntityType.USER)
getEntityReferenceFromEntity(u, type) ==
    [id |-> IdOf[u], name |-> NameOf[u], displayName |-> DisplayNameOf[u],
     type |-> type]

\* one entry of the list UserTeamSelectableList hands to onUpdate
Option(u) == [name |-> NameOf[u], displayName |-> DisplayNameOf[u], value |-> IdOf[u]]

\* the lists the assignee picker can hand over: the users ticked, in order
PickLists ==
    {<<>>} \cup {<<Option(u)>> : u \in Users}
           \cup {<<Option(u), Option(v)>> : <<u, v>> \in {p \in Users \X Users : p[1] # p[2]}}

\* The value of the assignee field: nothing, one entity reference (as the
\* existing data carries it), or the list of options the picker produced.
NoAssignee == [kind |-> "none", ref |-> NoRef, items |-> <<>>]
RefAssignee(r) == [kind |-> "ref", ref |-> r, items |-> <<>>]
ListAssignee(s) == [kind |-> "list", ref |-> NoRef, items |-> s]

\* testCaseResolutionStatusDetails with nothing in it
NoDetails ==
    [testCaseFailureReason |-> None, testCaseFailureComment |-> None,
     resolvedBy |-> NoRef, assignee |-> NoAssignee]

\* the data prop: no existing status, or one of these existing statuses
NoData == [testCaseResolutionStatusType |-> None, testCaseResolutionStatusDetails |-> NoDetails]
DataChoices ==
    { NoData,
      [testCaseResolutionStatusType |-> "New", testCaseResolutionStatusDetails |-> NoDetails],
      [testCaseResolutionStatusType |-> Assigned, testCaseResolutionStatusDetails |-> NoDetails],
      [testCaseResolutionStatusType |-> Assigned,
       testCaseResolutionStatusDetails |->
         [NoDetails EXCEPT !.assignee =
            RefAssignee(getEntityReferenceFromEntity("u2", EntityTypeUSER))]],
      [testCaseResolutionStatusType |-> Resolved,
       testCaseResolutionStatusDetails |->
         [testCaseFailureReason |-> "FalsePositive",
          testCaseFailureComment |-> "dup of X",
          resolvedBy |-> getEntityReferenceFromEntity("u2", EntityTypeUSER),
          assignee |-> NoAssignee]] }

----------------------------------------------------------------------------
\* TestCaseStatusModal: the form

\* an absent request, and what the server answers to a request: the record
\* it persisted
NoRequest ==
    [testCaseResolutionStatusType |-> None, testCaseReference |-> None,
     testCaseResolutionStatusDetails |-> NoDetails]
Response(req) == [persisted |-> req]

\* <Form initialValues={data}>: the store the form is mounted with
InitialStore(d) ==
    [testCaseResolutionStatusType |-> d.testCaseResolutionStatusType,
     testCaseFailureReason |-> d.testCaseResolutionStatusDetails.testCaseFailureReason,
     testCaseFailureComment |-> d.testCaseResolutionStatusDetails.testCaseFailureComment,
     assignee |-> d.testCaseResolutionStatusDetails.assignee]

\* statusOptions without the restriction under Assigned
statusOptionsAll(d) == TestCaseResolutionStatusTypes
\* const statusOptions = useMemo(...)
statusOptions(d) ==
    IF d.testCaseResolutionStatusType = Assigned
    THEN {Assigned, Resolved}
    ELSE TestCaseResolutionStatusTypes

\* Form.useWatch('testCaseResolutionStatusType', form)
statusType == store.testCaseResolutionStatusType

\* Form.useWatch(['testCaseResolutionStatusDetails', 'assignee'], form): the
\* value of the field while its Form.Item is rendered
updatedAssignees == IF statusType = Assigned THEN store.assignee ELSE NoAssignee

\* onFinish handed the whole store, the fields not rendered included
FormValuesWholeStore ==
    [testCaseResolutionStatusType |-> store.testCaseResolutionStatusType,
     testCaseResolutionStatusDetails |->
        [testCaseFailureReason |-> store.testCaseFailureReason,
         testCaseFailureComment |-> store.testCaseFailureComment,
         resolvedBy |-> NoRef,
         assignee |-> store.assignee]]
\* The values antd hands to onFinish: those of the Form.Items rendered, which
\* are the status, the reason and the comment under Resolved, and the
\* assignee under Assigned.
FormValues ==
    [testCaseResolutionStatusType |-> store.testCaseResolutionStatusType,
     testCaseResolutionStatusDetails |->
        IF statusType = Resolved
        THEN [NoDetails EXCEPT !.testCaseFailureReason = store.testCaseFailureReason,
                               !.testCaseFailureComment = store.testCaseFailureComment]
        ELSE IF statusType = Assigned
        THEN [NoDetails EXCEPT !.assignee = store.assignee]
        ELSE NoDetails]

\* rules={[{ required: true }]} on a text or select field
RequiredText(v) == v # None /\ v # ""
\* rules={[{ required: true }]} on the assignee field
RequiredAssignee(a) == a.kind = "ref" \/ (a.kind = "list" /\ Len(a.items) > 0)

\* the rules without the one on the comment
ValidateFieldsNoComment ==
    /\ RequiredText(store.testCaseResolutionStatusType)
    /\ statusType = Resolved => RequiredText(store.testCaseFailureReason)
    /\ statusType = Assigned => RequiredAssignee(store.assignee)
\* the rules of the Form.Items rendered, as form.submit() validates them
ValidateFields ==
    /\ RequiredText(store.testCaseResolutionStatusType)
    /\ statusType = Resolved =>
          /\ RequiredText(store.testCaseFailureReason)
          /\ RequiredText(store.testCaseFailureComment)
    /\ statusType = Assigned => RequiredAssignee(store.assignee)

\* handleFormSubmit without testCaseReference: testCaseFqn
updatedDataKeepsReference(values, watched, user) ==
    [testCaseResolutionStatusType |-> values.testCaseResolutionStatusType,
     testCaseReference |-> None,
     testCaseResolutionStatusDetails |->
        IF values.testCaseResolutionStatusType = Resolved
        THEN [values.testCaseResolutionStatusDetails EXCEPT
                !.resolvedBy = IF user # None
                               THEN getEntityReferenceFromEntity(user, EntityTypeUSER)
                               ELSE NoRef]
        ELSE values.testCaseResolutionStatusDetails]
\* handleFormSubmit taking the last assignee of the list, not the first
updatedDataSecondAssignee(values, watched, user) ==
    [testCaseResolutionStatusType |-> values.testCaseResolutionStatusType,
     testCaseReference |-> testCaseFqn,
     testCaseResolutionStatusDetails |->
        IF values.testCaseResolutionStatusType = Assigned
             /\ watched.kind = "list" /\ Len(watched.items) > 0
        THEN [values.testCaseResolutionStatusDetails EXCEPT
                !.assignee = RefAssignee(
                    [name |-> watched.items[Len(watched.items)].name,
                     displayName |-> watched.items[Len(watched.items)].displayName,
                     id |-> watched.items[Len(watched.items)].value,
                     type |-> EntityTypeUSER])]
        ELSE values.testCaseResolutionStatusDetails]
\* handleFormSubmit, up to the try: the request built from the form values
updatedData(values, watched, user) ==
    [testCaseResolutionStatusType |-> values.testCaseResolutionStatusType,
     testCaseReference |-> testCaseFqn,
     testCaseResolutionStatusDetails |->
        IF values.testCaseResolutionStatusType = Resolved
        THEN [values.testCaseResolutionStatusDetails EXCEPT
                !.resolvedBy = IF user # None
                               THEN getEntityReferenceFromEntity(user, EntityTypeUSER)
                               ELSE NoRef]
        ELSE IF values.testCaseResolutionStatusType = Assigned
                /\ watched.kind = "list" /\ Len(watched.items) > 0
        THEN [values.testCaseResolutionStatusDetails EXCEPT
                !.assignee = RefAssignee(
                    [name |-> watched.items[1].name,
                     displayName |-> watched.items[1].displayName,
                     id |-> watched.items[1].value,
                     type |-> EntityTypeUSER])]
        ELSE values.testCaseResolutionStatusDetails]

\* a component without the effect
PrePopulateNever(d, st) == st
\* useEffect(..., [data]): the assignee of an Assigned status goes to the form
PrePopulate(d, st) ==
    IF d.testCaseResolutionStatusType = Assigned
         /\ d.testCaseResolutionStatusDetails.assignee.kind # "none"
    THEN [st EXCEPT !.assignee = d.testCaseResolutionStatusDetails.assignee]
    ELSE st

\* the button without loading: isLoading
SubmitEnabledIgnoringLoading == open
\* okButtonProps loading: isLoading: the button of a shown modal takes a click
\* unless it is loading
SubmitEnabled == open /\ ~isLoading

\* entries of calls
Event(kind, arg, threw, by) == [kind |-> kind, arg |-> arg, threw |-> threw, by |-> by]
NoArg == Response(NoRequest)

RemoveAt(s, i) == [j \in 1..(Len(s) - 1) |-> IF j < i THEN s[j] ELSE s[j + 1]]

----------------------------------------------------------------------------
\* TestCaseStatusModal: the operations

ModalInit ==
    /\ open = TRUE
    /\ data \in DataChoices
    /\ currentUser \in {None, "u1"}
    /\ store = PrePopulate(data, InitialStore(data))
    /\ isLoading = FALSE
    /\ inflight = <<>>
    /\ calls = <<>>
    /\ finishFailed = FALSE
    /\ assignedSinceMount = (data.testCaseResolutionStatusType = Assigned)

\* the parent renders the modal with another data prop: statusOptions is
\* recomputed and the effect on [data] runs; initialValues is not applied again
DataChange(d) ==
    /\ open
    /\ d # data
    /\ data' = d
    /\ store' = PrePopulate(d, store)
    /\ assignedSinceMount' = (assignedSinceMount /\ d.testCaseResolutionStatusType = Assigned)
    /\ finishFailed' = FALSE
    /\ UNCHANGED <<open, currentUser, isLoading, inflight, calls, userVars>>

\* the user picks a status among the options offered
SelectStatus(t) ==
    /\ open
    /\ t \in statusOptions(data)
    /\ t # store.testCaseResolutionStatusType
    /\ store' = [store EXCEPT !.testCaseResolutionStatusType = t]
    /\ finishFailed' = FALSE
    /\ UNCHANGED <<open, data, currentUser, isLoading, inflight, calls,
                   assignedSinceMount, userVars>>

\* the user picks a failure reason (the field is rendered under Resolved)
SelectReason(r) ==
    /\ open
    /\ statusType = Resolved
    /\ r # store.testCaseFailureReason
    /\ store' = [store EXCEPT !.testCaseFailureReason = r]
    /\ finishFailed' = FALSE
    /\ UNCHANGED <<open, data, currentUser, isLoading, inflight, calls,
                   assignedSinceMount, userVars>>

\* RichTextEditor onTextChange: form.setFieldValue(comment, value)
TextChange(c) ==
    /\ open
    /\ statusType = Resolved
    /\ c # store.testCaseFailureComment
    /\ store' = [store EXCEPT !.testCaseFailureComment = c]
    /\ finishFailed' = FALSE
    /\ UNCHANGED <<open, data, currentUser, isLoading, inflight, calls,
                   assignedSinceMount, userVars>>

\* UserTeamSelectableList onUpdate (the field is rendered under Assigned)
UpdateAssignee(list) ==
    /\ open
    /\ statusType = Assigned
    /\ ListAssignee(list) # store.assignee
    /\ store' = [store EXCEPT !.assignee = ListAssignee(list)]
    /\ finishFailed' = FALSE
    /\ UNCHANGED <<open, data, currentUser, isLoading, inflight, calls,
                   assignedSinceMount, userVars>>

\* The submit button: the form validates the rendered fields and, when they
\* pass, calls handleFormSubmit, which runs to its await: setIsLoading(true),
\* the request is built and posted.
Submit ==
    /\ SubmitEnabled
    /\ Len(inflight) < MaxInflight
    /\ IF ValidateFields
       THEN /\ isLoading' = TRUE
            /\ inflight' = Append(inflight,
                    [values |-> FormValues,
                     watched |-> updatedAssignees,
                     request |-> updatedData(FormValues, updatedAssignees, currentUser)])
            /\ calls' = <<>>
            /\ finishFailed' = FALSE
       ELSE /\ finishFailed' = TRUE
            /\ UNCHANGED <<isLoading, inflight, calls>>
    /\ UNCHANGED <<open, data, currentUser, store, assignedSinceMount, userVars>>

\* the try with onCancel() ahead of onSubmit(data)
OnSuccessCancelFirst(resp, submitThrows, cancelThrows) ==
    <<Event("onCancel", NoArg, cancelThrows, "submit")>>
      \o (IF cancelThrows THEN <<Event("toast", NoArg, FALSE, "submit")>>
          ELSE <<Event("onSubmit", resp, submitThrows, "submit")>>
               \o (IF submitThrows THEN <<Event("toast", NoArg, FALSE, "submit")>> ELSE <<>>))
\* what handleFormSubmit does once the call has succeeded: onSubmit(data),
\* onCancel(); a callback that throws lands in catch (the toast)
OnSuccess(resp, submitThrows, cancelThrows) ==
    <<Event("onSubmit", resp, submitThrows, "submit")>>
      \o (IF submitThrows THEN <<Event("toast", NoArg, FALSE, "submit")>>
          ELSE <<Event("onCancel", NoArg, cancelThrows, "submit")>>
               \o (IF cancelThrows THEN <<Event("toast", NoArg, FALSE, "submit")>> ELSE <<>>))

\* the catch closing the modal after the toast
OnFailureCloses == <<Event("toast", NoArg, FALSE, "submit"),
                     Event("onCancel", NoArg, FALSE, "submit")>>
\* what handleFormSubmit does once the call has failed: showErrorToast(error)
OnFailure == <<Event("toast", NoArg, FALSE, "submit")>>

\* setIsLoading(false) at the end of the try instead of in finally
FinallyOnSuccessOnly(ok) == IF ok THEN FALSE ELSE isLoading
\* finally { setIsLoading(false) }
Finally(ok) == FALSE

\* the parent closes the modal when its onCancel has run to its end
ClosedBy(events) ==
    \E i \in 1..Len(events) : events[i].kind = "onCancel" /\ ~events[i].threw

\* The pending call i settles and handleFormSubmit resumes after its await:
\* try { onSubmit(data); onCancel() } catch { toast } finally { setIsLoading(false) }
Settle(i, ok, submitThrows, cancelThrows) ==
    /\ i \in 1..Len(inflight)
    /\ LET resp == Response(inflight[i].request)
           did == IF ok
                  THEN <<Event("netOk", resp, FALSE, "net")>>
                         \o OnSuccess(resp, submitThrows, cancelThrows)
                  ELSE <<Event("netFail", NoArg, FALSE, "net")>> \o OnFailure
       IN /\ calls' = calls \o did
          /\ open' = (open /\ ~ClosedBy(did))
    /\ isLoading' = Finally(ok)
    /\ inflight' = RemoveAt(inflight, i)
    /\ UNCHANGED <<data, currentUser, store, finishFailed, assignedSinceMount, userVars>>

\* a Cancel button whose onCancel leaves the modal shown
CancelStaysOpen ==
    /\ open
    /\ calls' = Append(calls, Event("onCancel", NoArg, FALSE, "user"))
    /\ UNCHANGED <<open, data, currentUser, store, isLoading, inflight, finishFailed,
                   assignedSinceMount, userVars>>
\* the Cancel button (or the mask, or Esc): onCancel={onCancel}
Cancel ==
    /\ open
    /\ calls' = Append(calls, Event("onCancel", NoArg, FALSE, "user"))
    /\ open' = FALSE
    /\ UNCHANGED <<data, currentUser, store, isLoading, inflight, finishFailed,
                   assignedSinceMount, userVars>>

Settled ==
    \E i \in 1..Len(inflight) : \E ok, submitThrows, cancelThrows \in BOOLEAN :
        /\ ~ok => (~submitThrows /\ ~cancelThrows)
        /\ submitThrows => ~cancelThrows
        /\ Settle(i, ok, submitThrows, cancelThrows)

ModalNext ==
    \/ \E d \in DataChoices : DataChange(d)
    \/ \E t \in TestCaseResolutionStatusTypes : SelectStatus(t)
    \/ \E r \in TestCaseFailureReasonType : SelectReason(r)
    \/ \E c \in Comments : TextChange(c)
    \/ \E list \in PickLists : UpdateAssignee(list)
    \/ Submit
    \/ Settled
    \/ Cancel

----------------------------------------------------------------------------
\* CreateUser: values

\* CreatePasswordGenerator
AutomatciGenerate == "automatic_generator"
CreatePassword == "create_password"
\* AuthType
Jwt == "JWT"
Sso == "SSO"
\* JWTTokenExpiry
OneHour == "OneHour"
JWTTokenExpiry == {OneHour, "Unlimited"}
\* SsoServiceType, and one provider the form does not know
Google == "google"
Auth0 == "auth0"
Azure == "azure"
Okta == "okta"
CustomOidc == "custom-oidc"
Providers == {Okta, Google, "ldap", None}

\* what the user can type into a text input
Texts == {"", "x"}
Emails == {"", "bot@open.org"}
Passwords == {"", "Abc123!", "Abc124!"}
\* the ids the roles dropdown can hand to onSelect
RoleIds == {"role-1", "role-2", None}
\* the selections TeamsSelectable can hand to onSelectionChange
TeamLists == {<<>>, <<"team-1">>}

\* what generateRandomPwd answers to the n-th call
RandomPwd(n) == <<"pwd", n>>
\* generatedPassword before any password was generated: ''
NoPwd == <<>>

\* the keys of ssoClientConfig that handleOnChange can set
SsoKeys == {"secretKey", "audience", "clientId", "domain", "clientSecret", "authority",
            "scopes", "privateKey", "orgURL", "email", "tokenEndpoint"}
\* useState<SSOClientConfig>({}): no key set
EmptySsoConfig == [k \in SsoKeys |-> None]

\* handleOnChange: what a typed value becomes under its key; scopes is
\* value ? value.split(',') : [], the list written here between brackets
Stored(k, v) == IF k = "scopes" THEN (IF v = "" THEN "[]" ELSE "[" \o v \o "]") ELSE v

\* getSSOConfig: the keys whose inputs are rendered for the provider, and
\* those among them whose Form.Item is required
SsoFields(p) ==
    CASE p = Google -> {"secretKey", "audience"}
      [] p = Auth0 -> {"secretKey", "clientId", "domain"}
      [] p = Azure -> {"clientSecret", "clientId", "authority", "scopes"}
      [] p = Okta -> {"privateKey", "clientId", "orgURL", "email", "scopes"}
      [] p = CustomOidc -> {"secretKey", "clientId", "tokenEndpoint"}
      [] OTHER -> {}
\* the required keys were the Okta email optional
SsoRequiredWithoutEmail(p) ==
    IF p = Okta THEN {"privateKey", "clientId", "orgURL"} ELSE SsoFields(p) \ {"audience"}
SsoRequired(p) ==
    CASE p = Google -> {"secretKey"}
      [] p = Auth0 -> {"secretKey", "clientId", "domain"}
      [] p = Azure -> {"clientSecret", "clientId", "authority", "scopes"}
      [] p = Okta -> {"privateKey", "clientId", "orgURL", "email"}
      [] p = CustomOidc -> {"secretKey", "clientId", "tokenEndpoint"}
      [] OTHER -> {}

\* no authenticationMechanism in the payload, and no payload
NoConfig == [JWTTokenExpiry |-> None, ssoServiceType |-> None, authConfig |-> EmptySsoConfig]
NoAuth == [authType |-> None, config |-> NoConfig]
NoPayload ==
    [email |-> None, isAdmin |-> FALSE, isBot |-> FALSE, roles |-> <<>>, teams |-> <<>>,
     password |-> NoPwd, confirmPassword |-> NoPwd, authenticationMechanism |-> NoAuth,
     none |-> TRUE]

----------------------------------------------------------------------------
\* CreateUser: state and field edits

\* the props: a user form or a bot form, under one of the providers
UserProps ==
    /\ forceBot \in BOOLEAN
    /\ provider \in Providers

\* the useState initial values
UserState ==
    /\ saveState = "initial"
    /\ email = ""
    /\ isAdmin = FALSE
    /\ isBot = forceBot
    /\ selectedRoles = <<>>
    /\ selectedTeams = <<>>
    /\ password = ""
    /\ confirmPassword = ""
    /\ authMechanism = Jwt
    /\ tokenExpiry = OneHour
    /\ ssoClientConfig = EmptySsoConfig
    /\ passwordGenerator = AutomatciGenerate
    /\ isPasswordGenerating = FALSE
    /\ generatedPassword = NoPwd
    /\ fieldGeneratedPassword = NoPwd
    /\ pwdInflight = {}
    /\ pwdTimers = <<>>
    /\ pwdIssued = 0
    /\ pwdFailed = {}
    /\ saved = NoPayload
    /\ saveRejected = FALSE

UserInit == UserProps /\ UserState

\* an edit leaves no submit outcome standing for the new field values
Edited ==
    /\ saved' = NoPayload
    /\ saveRejected' = FALSE

\* handleOnChange, case 'email'
SetEmail(v) ==
    /\ v # email
    /\ email' = v
    /\ Edited
    /\ UNCHANGED <<propVars, saveState, isAdmin, isBot, selectedRoles, selectedTeams,
                   authMechanism, tokenExpiry, ssoClientConfig, passwordVars, pwdVars,
                   modalVars>>

\* {!forceBot && ...}: the teams, the roles and the Admin switch are
\* rendered for a user only
AdminSwitchRenderedAlways == TRUE
AdminSwitchRendered == ~forceBot

\* the Admin switch: setIsAdmin((prev) => !prev); setIsBot(false)
ToggleAdmin ==
    /\ AdminSwitchRendered
    /\ isAdmin' = ~isAdmin
    /\ isBot' = FALSE
    /\ Edited
    /\ UNCHANGED <<propVars, saveState, email, selectedRoles, selectedTeams,
                   authMechanism, tokenExpiry, ssoClientConfig, passwordVars, pwdVars,
                   modalVars>>

Includes(s, id) == \E i \in 1..Len(s) : s[i] = id
indexOf(s, id) == CHOOSE i \in 1..Len(s) : s[i] = id /\ \A j \in 1..(i - 1) : s[j] # id

\* the updater that only ever adds the id
ToggleAppends(prevState, id) == Append(prevState, id)
\* the updater of selectedRolesHandler
Toggle(prevState, id) ==
    IF Includes(prevState, id)
    THEN RemoveAt(prevState, indexOf(prevState, id))
    ELSE Append(prevState, id)

\* selectedRolesHandler, from onSelect of the roles dropdown
selectedRolesHandler(id) ==
    /\ ~forceBot
    /\ selectedRoles' = Toggle(selectedRoles, id)
    /\ Edited
    /\ UNCHANGED <<propVars, saveState, email, isAdmin, isBot, selectedTeams,
                   authMechanism, tokenExpiry, ssoClientConfig, passwordVars, pwdVars,
                   modalVars>>

\* onSelectionChange={setSelectedTeams} of TeamsSelectable
SelectTeams(list) ==
    /\ ~forceBot
    /\ list # selectedTeams
    /\ selectedTeams' = list
    /\ Edited
    /\ UNCHANGED <<propVars, saveState, email, isAdmin, isBot, selectedRoles,
                   authMechanism, tokenExpiry, ssoClientConfig, passwordVars, pwdVars,
                   modalVars>>

\* onChange of the auth-mechanism select, rendered for a bot
SetAuthMechanism(m) ==
    /\ forceBot
    /\ m # authMechanism
    /\ authMechanism' = m
    /\ Edited
    /\ UNCHANGED <<propVars, saveState, email, isAdmin, isBot, selectedRoles,
                   selectedTeams, tokenExpiry, ssoClientConfig, passwordVars, pwdVars,
                   modalVars>>

\* onChange of the token-expiration select, rendered for a bot under JWT
SetTokenExpiry(t) ==
    /\ forceBot
    /\ authMechanism = Jwt
    /\ t # tokenExpiry
    /\ tokenExpiry' = t
    /\ Edited
    /\ UNCHANGED <<propVars, saveState, email, isAdmin, isBot, selectedRoles,
                   selectedTeams, authMechanism, ssoClientConfig, passwordVars, pwdVars,
                   modalVars>>

\* handleOnChange, the cases of the SSO inputs, rendered for a bot under SSO:
\* setSsoClientConfig((previous) => ({ ...previous, [key]: value }))
SetSsoField(k, v) ==
    /\ forceBot
    /\ authMechanism = Sso
    /\ k \in SsoFields(provider)
    /\ ssoClientConfig[k] # Stored(k, v)
    /\ ssoClientConfig' = [ssoClientConfig EXCEPT ![k] = Stored(k, v)]
    /\ Edited
    /\ UNCHANGED <<propVars, saveState, email, isAdmin, isBot, selectedRoles,
                   selectedTeams, authMechanism, tokenExpiry, passwordVars, pwdVars,
                   modalVars>>

\* handleOnChange, case 'password': the input of the manual subform
SetPassword(v) ==
    /\ passwordGenerator = CreatePassword
    /\ v # password
    /\ password' = v
    /\ Edited
    /\ UNCHANGED <<propVars, saveState, profileVars, confirmPassword, passwordGenerator,
                   pwdVars, modalVars>>

\* handleOnChange, case 'confirmPassword'
SetConfirmPassword(v) ==
    /\ passwordGenerator = CreatePassword
    /\ v # confirmPassword
    /\ confirmPassword' = v
    /\ Edited
    /\ UNCHANGED <<propVars, saveState, profileVars, password, passwordGenerator,
                   pwdVars, modalVars>>

\* handleOnChange, case 'passwordGenerator': the radio group
SetPasswordGenerator(v) ==
    /\ v # passwordGenerator
    /\ passwordGenerator' = v
    /\ Edited
    /\ UNCHANGED <<propVars, saveState, profileVars, password, confirmPassword,
                   pwdVars, modalVars>>

----------------------------------------------------------------------------
\* CreateUser: random-password generation

\* onClick={generateRandomPassword} on the addon of the generated-password
\* input, rendered in automatic mode whether or not a request is pending; the
\* handler runs to its await
generateRandomPassword ==
    /\ passwordGenerator = AutomatciGenerate
    /\ pwdIssued < MaxGenerate
    /\ isPasswordGenerating' = TRUE
    /\ pwdIssued' = pwdIssued + 1
    /\ pwdInflight' = pwdInflight \cup {pwdIssued + 1}
    /\ UNCHANGED <<propVars, saveState, profileVars, passwordVars, generatedPassword,
                   fieldGeneratedPassword, pwdTimers, pwdFailed, saveVars, modalVars>>

\* a handler that keeps the flag up until the delayed update has run
BusyUntilUpdated(ok) == ok
\* finally { setIsPasswordGenerating(false) }: the flag once the call settled
BusyAfterSettle(ok) == FALSE

\* the call n settles: on success the update is scheduled with setTimeout,
\* on failure the toast is shown; finally the flag is set
PwdSettle(n, ok) ==
    /\ n \in pwdInflight
    /\ pwdInflight' = pwdInflight \ {n}
    /\ pwdTimers' = IF ok THEN Append(pwdTimers, n) ELSE pwdTimers
    /\ pwdFailed' = IF ok THEN pwdFailed ELSE pwdFailed \cup {n}
    /\ isPasswordGenerating' = BusyAfterSettle(ok)
    /\ UNCHANGED <<propVars, saveState, profileVars, passwordVars, generatedPassword,
                   fieldGeneratedPassword, pwdIssued, saveVars, modalVars>>

\* the timeout callback that is due: setGeneratedPassword and
\* form.setFieldsValue; callbacks of one delay run in the order they were set
PwdTimeout ==
    /\ pwdTimers # <<>>
    /\ pwdTimers' = Tail(pwdTimers)
    /\ generatedPassword' = RandomPwd(Head(pwdTimers))
    /\ fieldGeneratedPassword' = RandomPwd(Head(pwdTimers))
    /\ Edited
    /\ UNCHANGED <<propVars, saveState, profileVars, passwordVars, isPasswordGenerating,
                   pwdInflight, pwdIssued, pwdFailed, modalVars>>

----------------------------------------------------------------------------
\* CreateUser: submit

\* rules of the email Form.Item: required, an email, validEmailRegEx
ValidEmail(v) == RequiredText(v) /\ v \in {"bot@open.org"}

\* a confirmPassword Form.Item without its validator
ConfirmUnchecked(value) == TRUE
\* validator of the confirmPassword Form.Item: value !== password rejects
ConfirmMatches(value) == value = password

\* the SSO key holds a value its required rule accepts
SsoFilled(k) == ssoClientConfig[k] \notin {None, "", "[]"}

\* form.validateFields over the Form.Items that are rendered
ValidateUser ==
    /\ ValidEmail(email)
    /\ forceBot =>
          /\ authMechanism # None
          /\ authMechanism = Jwt => tokenExpiry # None
          /\ authMechanism = Sso => \A k \in SsoRequired(provider) : SsoFilled(k)
    /\ passwordGenerator = CreatePassword =>
          /\ RequiredText(password)
          /\ RequiredText(confirmPassword)
          /\ ConfirmMatches(confirmPassword)
    /\ passwordGenerator = AutomatciGenerate => fieldGeneratedPassword # NoPwd

\* a payload that always takes the typed passwords
typedPasswords == [password |-> <<password>>, confirmPassword |-> <<confirmPassword>>]
\* handleSave: password and confirmPassword of the payload
payloadPasswords ==
    IF passwordGenerator = AutomatciGenerate
    THEN [password |-> generatedPassword, confirmPassword |-> generatedPassword]
    ELSE [password |-> <<password>>, confirmPassword |-> <<confirmPassword>>]

\* handleSave: the ids that are not undefined, or undefined for none
validIds(ids) ==
    LET valid == SelectSeq(ids, LAMBDA id : id # None)
    IN  IF Len(valid) > 0 THEN valid ELSE <<>>

\* handleSave: authenticationMechanism of a bot
authenticationMechanism ==
    [authType |-> authMechanism,
     config |-> IF authMechanism = Jwt
                THEN [JWTTokenExpiry |-> tokenExpiry, ssoServiceType |-> None,
                      authConfig |-> EmptySsoConfig]
                ELSE [JWTTokenExpiry |-> None, ssoServiceType |-> provider,
                      authConfig |-> ssoClientConfig]]

\* handleSave: the CreateUser request
userProfile ==
    [email |-> email, isAdmin |-> isAdmin, isBot |-> isBot,
     roles |-> validIds(selectedRoles), teams |-> validIds(selectedTeams),
     password |-> payloadPasswords.password,
     confirmPassword |-> payloadPasswords.confirmPassword,
     authenticationMechanism |-> IF forceBot THEN authenticationMechanism ELSE NoAuth,
     none |-> FALSE]

\* a Create button that is there whatever saveState is
SaveRenderedAlways == TRUE
\* the Create button (htmlType submit) is rendered unless saveState is
\* 'waiting' or 'success'; the buttons rendered then are disabled
SaveRendered == saveState \notin {"waiting", "success"}

\* click on Create: the form validates its fields; onFinish is handleSave,
\* which calls onSave
Save ==
    /\ SaveRendered
    /\ IF ValidateUser
       THEN saved' = userProfile /\ saveRejected' = FALSE
       ELSE saved' = NoPayload /\ saveRejected' = TRUE
    /\ UNCHANGED <<propVars, saveState, profileVars, passwordVars, pwdVars, modalVars>>

\* the parent renders the form with another saveState
SetSaveState(v) ==
    /\ v # saveState
    /\ saveState' = v
    /\ UNCHANGED <<propVars, profileVars, passwordVars, pwdVars, saveVars, modalVars>>

\* the password subform, the email and the submit
UserNext ==
    \/ \E v \in {AutomatciGenerate, CreatePassword} : SetPasswordGenerator(v)
    \/ generateRandomPassword
    \/ \E n \in 1..MaxGenerate : \E ok \in BOOLEAN : PwdSettle(n, ok)
    \/ PwdTimeout
    \/ \E v \in Passwords : SetPassword(v)
    \/ \E v \in Passwords : SetConfirmPassword(v)
    \/ \E v \in Emails : SetEmail(v)
    \/ Save

\* the rest of the form and the submit, the password being in hand
ProfileNext ==
    \/ \E v \in Emails : SetEmail(v)
    \/ ToggleAdmin
    \/ \E id \in RoleIds : selectedRolesHandler(id)
    \/ \E list \in TeamLists : SelectTeams(list)
    \/ \E m \in {Jwt, Sso} : SetAuthMechanism(m)
    \/ \E t \in JWTTokenExpiry : SetTokenExpiry(t)
    \/ \E k \in SsoKeys : \E v \in Texts : SetSsoField(k, v)
    \/ \E v \in {"initial", "waiting", "success"} : SetSaveState(v)
    \/ Save

----------------------------------------------------------------------------
\* Specifications

\* the creation form as mounted for a user under no provider
UserIdle == forceBot = FALSE /\ provider = None /\ UserState

\* the modal as mounted closed over no data
ModalIdle ==
    /\ open = FALSE
    /\ data = NoData
    /\ currentUser = None
    /\ store = InitialStore(NoData)
    /\ isLoading = FALSE
    /\ inflight = <<>>
    /\ calls = <<>>
    /\ finishFailed = FALSE
    /\ assignedSinceMount = FALSE

Init == ModalInit /\ UserIdle

\* the modal
Spec == Init /\ [][ModalNext]_vars
\* the modal, every pending network call settling in the end
FairSpec == Init /\ [][ModalNext]_vars /\ WF_vars(Settled)

UserSpecInit == ModalIdle /\ UserInit
\* the creation form: passwords and submit
UserSpec == UserSpecInit /\ [][UserNext]_vars

\* the creation form once a first generated password is shown, a state
\* UserSpec reaches by one click on the generate control
UserWithPassword ==
    /\ saveState = "initial"
    /\ email = ""
    /\ isAdmin = FALSE
    /\ isBot = forceBot
    /\ selectedRoles = <<>>
    /\ selectedTeams = <<>>
    /\ password = ""
    /\ confirmPassword = ""
    /\ authMechanism = Jwt
    /\ tokenExpiry = OneHour
    /\ ssoClientConfig = EmptySsoConfig
    /\ passwordGenerator = AutomatciGenerate
    /\ isPasswordGenerating = FALSE
    /\ generatedPassword = RandomPwd(1)
    /\ fieldGeneratedPassword = RandomPwd(1)
    /\ pwdInflight = {}
    /\ pwdTimers = <<>>
    /\ pwdIssued = 1
    /\ pwdFailed = {}
    /\ saved = NoPayload
    /\ saveRejected = FALSE

ProfileInit == ModalIdle /\ UserProps /\ UserWithPassword
\* the creation form: profile, authentication mechanism and submit
ProfileSpec == ProfileInit /\ [][ProfileNext]_vars

----------------------------------------------------------------------------
\* Properties of the modal's submission

\* the places in calls of the events of one kind made by one party
At(kind, by) == {i \in 1..Len(calls) : calls[i].kind = kind /\ calls[i].by = by}
\* the events a step has added to calls
Added == {i \in 1..Len(calls') : i > Len(calls)}
\* a pending call settles in this step, with this outcome
SettleStep(kind) ==
    /\ Len(inflight') < Len(inflight)
    /\ Len(calls') > Len(calls)
    /\ calls'[Len(calls) + 1].kind = kind
\* a call is posted in this step, and the request it carries
SubmitStep == Len(inflight') = Len(inflight) + 1
Sent == inflight'[Len(inflight')].request

\* C1 as stated: when the network call of the submission has succeeded,
\* onSubmit has been invoked exactly once, with the server response, and
\* onCancel has been invoked by the submission, after onSubmit and never
\* before it.
C1_SubmitThenCancel ==
    \A n \in At("netOk", "net") :
        /\ Cardinality(At("onSubmit", "submit")) = 1
        /\ \A i \in At("onSubmit", "submit") : i > n /\ calls[i].arg = calls[n].arg
        /\ At("onCancel", "submit") # {}
        /\ \A j \in At("onCancel", "submit") : \A i \in At("onSubmit", "submit") : j > i

\* C1 as amended: when the network call of the submission has succeeded,
\* onSubmit has been invoked exactly once, with the server response; the
\* submission invokes onCancel at most once and never before onSubmit, and it
\* invokes it exactly when onSubmit returned normally: an onSubmit that throws
\* is answered by the error toast and onCancel is not invoked.
C1_SubmitThenCancelUnlessThrown ==
    \A n \in At("netOk", "net") :
        /\ Cardinality(At("onSubmit", "submit")) = 1
        /\ \A i \in At("onSubmit", "submit") :
              /\ i > n
              /\ calls[i].arg = calls[n].arg
              /\ calls[i].threw <=> At("onCancel", "submit") = {}
              /\ calls[i].threw => At("toast", "submit") # {}
        /\ Cardinality(At("onCancel", "submit")) <= 1
        /\ \A j \in At("onCancel", "submit") : \A i \in At("onSubmit", "submit") : j > i

\* a submission has succeeded, onSubmit has returned and onCancel has followed
C1_Witness ==
    /\ At("netOk", "net") # {}
    /\ \E i \in At("onSubmit", "submit") : ~calls[i].threw
    /\ \E j \in At("onCancel", "submit") : ~calls[j].threw
    /\ ~open

\* C2: a step in which the network call of a submission fails shows the error
\* toast, invokes neither onSubmit nor onCancel, leaves the field values and
\* the modal as they were, and leaves the submit button of the modal, when it
\* is still shown, ready for another submission.
C2_FailureLeavesFormForRetry ==
    [][SettleStep("netFail") =>
          /\ \E i \in Added : calls'[i].kind = "toast"
          /\ \A i \in Added : calls'[i].kind \notin {"onSubmit", "onCancel"}
          /\ store' = store
          /\ open' = open
          /\ open' => SubmitEnabled']_vars

\* a submission has failed: the toast is up and the modal is open and idle
C2_Witness ==
    /\ At("netFail", "net") # {}
    /\ At("toast", "submit") # {}
    /\ open /\ ~isLoading /\ ValidateFields

\* C3: isLoading is true exactly while a submission is in flight, and, the
\* network call settling in the end, it is false again afterwards, whatever
\* the outcome of the call and of the callbacks.
C3_BusyIndicatorCleared ==
    /\ [](isLoading <=> Len(inflight) > 0)
    /\ (isLoading ~> ~isLoading)

\* a submission has ended with a callback that threw, and isLoading is false
C3_Witness ==
    /\ ~isLoading
    /\ \E i \in 1..Len(calls) : calls[i].threw

\* C4: at most one status submission is in flight.
C4_OneSubmissionInFlight == Len(inflight) <= 1

\* a submission is in flight, the button loading, the modal still shown
C4_Witness == Len(inflight) = 1 /\ isLoading /\ open

----------------------------------------------------------------------------
\* Properties of password generation in the creation form

\* C5: at most one generateRandomPwd request is in flight, the control being
\* disabled while one is.
C5_OneGenerateInFlight == Cardinality(pwdInflight) <= 1

----------------------------------------------------------------------------
\* Properties of the requests the modal sends

\* the identity of the first assignee selected in the assignee field: the
\* reference the existing data carried, or the first user ticked in the picker
FirstSelected(a) ==
    IF a.kind = "ref"
    THEN [id |-> a.ref.id, name |-> a.ref.name, type |-> a.ref.type]
    ELSE [id |-> a.items[1].value, name |-> a.items[1].name, type |-> EntityTypeUSER]

ResolvedIncomplete ==
    /\ statusType = Resolved
    /\ \/ store.testCaseFailureReason = None
       \/ store.testCaseFailureComment \in {None, ""}

\* C7: while the Resolved form lacks the failure reason or a non-empty
\* comment no step posts a call, and the submit attempt that fails validation
\* invokes no callback and leaves the field values, the busy flag and the
\* modal as they were.
C7_ResolvedNeedsReasonAndComment ==
    [][ResolvedIncomplete =>
          /\ ~SubmitStep
          /\ (finishFailed' /\ ~finishFailed) =>
                /\ store' = store
                /\ calls' = calls
                /\ inflight' = inflight
                /\ isLoading' = isLoading
                /\ open' = open]_vars

\* a submit attempt under Resolved, the reason chosen and the comment empty,
\* has failed validation
C7_Witness ==
    /\ finishFailed
    /\ statusType = Resolved
    /\ store.testCaseFailureReason # None
    /\ store.testCaseFailureComment = ""
    /\ Len(inflight) = 0 /\ calls = <<>>

\* C8: the request posted under Resolved carries the testCaseFqn prop as
\* testCaseReference, the failure reason and the comment of the form, and the
\* reference of the current user (none when there is no current user) as
\* resolvedBy.
C8_ResolvedRequest ==
    [][(SubmitStep /\ statusType = Resolved) =>
          /\ Sent.testCaseResolutionStatusType = Resolved
          /\ Sent.testCaseReference = testCaseFqn
          /\ Sent.testCaseResolutionStatusDetails.testCaseFailureReason
               = store.testCaseFailureReason
          /\ Sent.testCaseResolutionStatusDetails.testCaseFailureComment
               = store.testCaseFailureComment
          /\ Sent.testCaseResolutionStatusDetails.resolvedBy
               = IF currentUser = None
                 THEN NoRef
                 ELSE [id |-> IdOf[currentUser], name |-> NameOf[currentUser],
                       displayName |-> DisplayNameOf[currentUser],
                       type |-> EntityTypeUSER]]_vars

\* a Resolved request with reason Duplicate is in flight, resolved by the
\* current user
C8_Witness ==
    \E i \in 1..Len(inflight) :
        LET r == inflight[i].request
        IN /\ r.testCaseResolutionStatusType = Resolved
           /\ r.testCaseResolutionStatusDetails.testCaseFailureReason = "Duplicate"
           /\ r.testCaseResolutionStatusDetails.testCaseFailureComment = "dup of X"
           /\ currentUser # None
           /\ r.testCaseResolutionStatusDetails.resolvedBy.id = IdOf[currentUser]

\* C9: the options offered are Assigned and Resolved when the existing status
\* is Assigned and every status otherwise, a status is selected only among
\* the options offered, and a modal whose existing status has been Assigned
\* since it was opened posts no request of another status.
C9_StatusOptions ==
    /\ [](/\ statusOptions(data) =
               (IF data.testCaseResolutionStatusType = Assigned
                THEN {Assigned, Resolved}
                ELSE {"New", "Ack", Assigned, Resolved})
          /\ assignedSinceMount =>
               \A i \in 1..Len(inflight) :
                   inflight[i].request.testCaseResolutionStatusType \in {Assigned, Resolved})
    /\ [][store'.testCaseResolutionStatusType # store.testCaseResolutionStatusType =>
              /\ data.testCaseResolutionStatusType = Assigned =>
                    store'.testCaseResolutionStatusType \in {Assigned, Resolved}
              /\ store'.testCaseResolutionStatusType \in TestCaseResolutionStatusTypes]_vars

\* a modal opened on an Assigned incident has a Resolved request in flight
C9_Witness ==
    /\ assignedSinceMount
    /\ \E i \in 1..Len(inflight) :
           inflight[i].request.testCaseResolutionStatusType = Resolved

\* the details variants a request has something of
AssigneeVariant(det) == det.assignee # NoAssignee
ResolvedVariant(det) ==
    \/ det.testCaseFailureReason # None
    \/ det.testCaseFailureComment # None
    \/ det.resolvedBy # NoRef

\* C10 as stated: every request in flight has exactly one details variant
\* populated, the one of its status: the assignee under Assigned; the failure
\* reason, the comment and resolvedBy (the reference of the current user, when
\* there is one) under Resolved.
C10_ExactlyOneVariant ==
    \A i \in 1..Len(inflight) :
        LET r == inflight[i].request
            det == r.testCaseResolutionStatusDetails
        IN /\ AssigneeVariant(det) # ResolvedVariant(det)
           /\ AssigneeVariant(det) =>
                 /\ r.testCaseResolutionStatusType = Assigned
                 /\ det.assignee.kind = "ref"
           /\ ResolvedVariant(det) =>
                 /\ r.testCaseResolutionStatusType = Resolved
                 /\ det.testCaseFailureReason # None
                 /\ det.testCaseFailureComment # None
                 /\ det.resolvedBy # NoRef <=> currentUser # None

\* C10 as amended: every request in flight has at most one details variant
\* populated, the one of its status: an Assigned request has the assignee and
\* nothing else, a Resolved request has the failure reason, the comment and,
\* when there is a current user, resolvedBy and nothing else, and a request
\* of any other status has no details.
C10_AtMostOneVariant ==
    \A i \in 1..Len(inflight) :
        LET r == inflight[i].request
            det == r.testCaseResolutionStatusDetails
        IN /\ r.testCaseResolutionStatusType = Assigned =>
                 /\ det.assignee.kind = "ref"
                 /\ ~ResolvedVariant(det)
           /\ r.testCaseResolutionStatusType = Resolved =>
                 /\ det.testCaseFailureReason # None
                 /\ det.testCaseFailureComment # None
                 /\ det.resolvedBy # NoRef <=> currentUser # None
                 /\ ~AssigneeVariant(det)
           /\ r.testCaseResolutionStatusType \notin {Assigned, Resolved} =>
                 det = NoDetails

\* a Resolved request is in flight while the form still holds the assignee
\* of the Assigned status it was switched from
C10_Witness ==
    /\ store.assignee # NoAssignee
    /\ \E i \in 1..Len(inflight) :
           inflight[i].request.testCaseResolutionStatusType = Resolved

----------------------------------------------------------------------------
\* Properties of the creation form's submit

\* onSave has been given a payload for the present field values
Saved == ~saved.none
\* the submit outcome changes over unchanged field values: a click on Create
SaveStep ==
    /\ saveVars' # saveVars
    /\ UNCHANGED <<profileVars, passwordVars, pwdVars>>
Manual == passwordGenerator = CreatePassword
Automatic == passwordGenerator = AutomatciGenerate

\* C11: in manual password mode onSave is invoked only if confirmPassword
\* equals password at submit time, whatever the order in which the two
\* were edited; on a mismatch the submit raises a validation error and onSave
\* is not invoked; in every payload password equals confirmPassword.
C11_ConfirmEqualsPassword ==
    /\ [](Saved => saved.password = saved.confirmPassword)
    /\ []((Saved /\ Manual) => confirmPassword = password)
    /\ [][(SaveStep /\ Manual /\ confirmPassword # password)
              => (saveRejected' /\ ~Saved')]_vars
\* a payload of manual mode, both fields holding the same typed password
C11_Witness ==
    /\ Saved
    /\ Manual
    /\ saved.password = <<"Abc124!">>
    /\ saved.confirmPassword = <<"Abc124!">>

\* C20: in every payload the password is non-empty and is that of the
\* selected mode only: the generated password in automatic mode, the typed one
\* in manual mode, whatever the other mode's fields hold; in automatic mode
\* onSave is not invoked before a password has been generated.
C20_PasswordOfSelectedMode ==
    Saved =>
        /\ saved.password \notin {NoPwd, <<"">>, <<None>>}
        /\ Automatic =>
              /\ saved.password = generatedPassword
              /\ \E n \in 1..pwdIssued : generatedPassword = RandomPwd(n)
        /\ Manual => saved.password = <<password>>
\* a payload of automatic mode while the manual fields still hold a password
C20_Witness ==
    /\ Saved
    /\ Automatic
    /\ password = "Abc123!"
    /\ saved.password = generatedPassword
    /\ generatedPassword # NoPwd

\* C15: onSave is invoked only while saveState is 'initial': under 'waiting'
\* and 'success' no submit is there to click.
C15_SaveOnlyWhenInitial ==
    [][SaveStep => saveState = "initial"]_vars
\* the form is valid and not yet saved as it stands, the parent waiting
C15_Witness ==
    /\ saveState = "waiting"
    /\ ValidateUser
    /\ ~Saved

\* C12: authenticationMechanism is in the payload only when a bot is being
\* created, and isBot of the payload is true exactly when it is, after any
\* edits, the Admin switch among them.
C12_BotHasAuthenticationMechanism ==
    Saved =>
        /\ saved.authenticationMechanism # NoAuth => forceBot
        /\ saved.isBot <=> saved.authenticationMechanism # NoAuth
\* the payload of a user whose Admin switch has been turned on
C12_Witness ==
    /\ Saved
    /\ saved.isAdmin
    /\ ~saved.isBot
    /\ saved.authenticationMechanism = NoAuth

----------------------------------------------------------------------------
\* Properties of the role selection

Ids(s) == {s[i] : i \in 1..Len(s)}

\* C13: selecting an id that is selected removes it, selecting one that is
\* not adds it; selecting the same id twice gives back the selection (the same
\* ids, each once), for every selection and id; the team selection is left
\* as it was.
C13_ToggleTwice ==
    /\ [](\A id \in RoleIds :
            LET once == Toggle(selectedRoles, id)
                twice == Toggle(once, id)
            IN  /\ Includes(selectedRoles, id) => Ids(once) = Ids(selectedRoles) \ {id}
                /\ ~Includes(selectedRoles, id) => Ids(once) = Ids(selectedRoles) \cup {id}
                /\ Ids(twice) = Ids(selectedRoles)
                /\ Len(twice) = Len(selectedRoles)
                /\ Cardinality(Ids(twice)) = Len(twice))
    /\ [][selectedRoles' # selectedRoles =>
            /\ selectedTeams' = selectedTeams
            /\ \E id \in RoleIds :
                  Ids(selectedRoles') = IF Includes(selectedRoles, id)
                                        THEN Ids(selectedRoles) \ {id}
                                        ELSE Ids(selectedRoles) \cup {id}]_vars
\* two roles selected, the first of which a second click would move to the
\* end, next to a team selection
C13_Witness ==
    /\ selectedRoles = <<"role-1", "role-2">>
    /\ selectedTeams # <<>>

----------------------------------------------------------------------------
\* Properties of a bot's authentication mechanism

OktaRequired == {"privateKey", "clientId", "orgURL", "email"}
\* the keys the payload's SSO config holds
ConfigKeys == {k \in SsoKeys : saved.authenticationMechanism.config.authConfig[k] # None}
OktaSaved ==
    /\ Saved
    /\ forceBot
    /\ provider = Okta
    /\ saved.authenticationMechanism.authType = Sso

\* C14 as stated: for an Okta bot under SSO the config of the payload holds
\* exactly privateKey, clientId, orgURL and email, with the values entered;
\* under a provider the form does not know no SSO field is offered and none
\* is required.
C14_ExactlyFourOktaFields ==
    /\ OktaSaved =>
          /\ ConfigKeys = OktaRequired
          /\ saved.authenticationMechanism.config.authConfig = ssoClientConfig
          /\ \A k \in OktaRequired : SsoFilled(k)
    /\ provider \notin {Google, Auth0, Azure, Okta, CustomOidc} =>
          /\ SsoFields(provider) = {}
          /\ ssoClientConfig = EmptySsoConfig

\* C14: for an Okta bot under SSO the config of the payload holds privateKey,
\* clientId, orgURL and email with the values entered, and besides them
\* scopes alone, as the list entered, once the optional Scopes input has been
\* edited; under a provider the form does not know no SSO field is offered
\* and none is required.
C14_FourOktaFieldsAndScopes ==
    /\ OktaSaved =>
          /\ OktaRequired \subseteq ConfigKeys
          /\ ConfigKeys \subseteq OktaRequired \cup {"scopes"}
          /\ saved.authenticationMechanism.config.authConfig = ssoClientConfig
          /\ \A k \in OktaRequired : SsoFilled(k)
          /\ ssoClientConfig["scopes"] \in {None} \cup {Stored("scopes", v) : v \in Texts}
          /\ saved.authenticationMechanism.config.ssoServiceType = Okta
    /\ provider \notin {Google, Auth0, Azure, Okta, CustomOidc} =>
          /\ SsoFields(provider) = {}
          /\ ssoClientConfig = EmptySsoConfig
          /\ (forceBot /\ authMechanism = Sso /\ ValidEmail(email)) => ValidateUser
\* an Okta payload whose config holds a scopes list next to the four fields
C14_Witness ==
    /\ OktaSaved
    /\ saved.authenticationMechanism.config.authConfig["scopes"] = "[x]"

----------------------------------------------------------------------------
\* Properties of password generation over time

\* C16 as stated: whenever the busy flag is off after a call that succeeded,
\* the generated password shown is already the one the call returned: no
\* delayed update is pending.
C16_BusyUntilShown == ~isPasswordGenerating => pwdTimers = <<>>

\* C16: the busy flag is cleared at the moment the call completes; the
\* generated password and the form field are set to the returned value
\* only by the delayed update that follows, which leaves the flag alone.
C16_ShownAfterBusyCleared ==
    /\ [][pwdInflight' # pwdInflight /\ pwdIssued' = pwdIssued =>
            /\ ~isPasswordGenerating'
            /\ generatedPassword' = generatedPassword
            /\ fieldGeneratedPassword' = fieldGeneratedPassword]_vars
    /\ [][generatedPassword' # generatedPassword =>
            /\ pwdTimers # <<>>
            /\ generatedPassword' = RandomPwd(Head(pwdTimers))
            /\ fieldGeneratedPassword' = generatedPassword'
            /\ pwdInflight' = pwdInflight
            /\ isPasswordGenerating' = isPasswordGenerating]_vars
\* the only call has succeeded, the flag is off, no password is shown yet
C16_Witness ==
    /\ ~isPasswordGenerating
    /\ pwdIssued = 1
    /\ pwdTimers = <<1>>
    /\ generatedPassword = NoPwd

\* C18: once every call and every delayed update has completed, the generated
\* password, in the state and in the form field, is the response to the
\* request issued last, unless that request failed.
C18_LatestRequestWins ==
    (pwdIssued > 0 /\ pwdInflight = {} /\ pwdTimers = <<>> /\ pwdIssued \notin pwdFailed) =>
        /\ generatedPassword = RandomPwd(pwdIssued)
        /\ fieldGeneratedPassword = RandomPwd(pwdIssued)

----------------------------------------------------------------------------
\* Properties of the modal's pre-population and of its cancellation

\* data is an Assigned status that carries an assignee
CarriesAssignee(d) ==
    /\ d.testCaseResolutionStatusType = Assigned
    /\ d.testCaseResolutionStatusDetails.assignee # NoAssignee

\* C17: whenever data is an Assigned status carrying an assignee, the assignee
\* field is set to that assignee, on mount and on every change of data; for
\* any other data the effect leaves the assignee field as it is.
C17_PrePopulateAssignee ==
    /\ (CarriesAssignee(data) => store.assignee = data.testCaseResolutionStatusDetails.assignee)
    /\ [][data' # data =>
            IF CarriesAssignee(data')
            THEN store' = [store EXCEPT
                             !.assignee = data'.testCaseResolutionStatusDetails.assignee]
            ELSE store' = store]_vars
\* data has changed since the mount, to an Assigned status whose assignee the
\* field now holds
C17_Witness ==
    /\ CarriesAssignee(data)
    /\ ~assignedSinceMount
    /\ store.assignee = data.testCaseResolutionStatusDetails.assignee
    /\ store.testCaseResolutionStatusType # Assigned

\* the Cancel actions of the user in calls, and what was invoked after one
UserCancels == At("onCancel", "user")
After(u, kind) == {i \in 1..Len(calls) : i > u /\ calls[i].kind = kind}

\* C19 as stated: once the user has cancelled, onSubmit is not invoked
\* afterwards and onCancel is not invoked a second time, even if a submission
\* in flight at that moment succeeds later.
C19_NothingAfterCancel ==
    \A u \in UserCancels : After(u, "onSubmit") = {} /\ After(u, "onCancel") = {}

\* C19: once the user has cancelled, the user cannot cancel or submit again;
\* a submission in flight at that moment runs to its end: if it succeeds,
\* onSubmit is invoked once with the response and, unless it throws, onCancel
\* once more; if it fails, or if none was in flight, neither is invoked.
C19_InFlightSubmissionCompletes ==
    /\ Cardinality(UserCancels) <= 1
    /\ \A u \in UserCancels :
          /\ ~open
          /\ Cardinality(After(u, "onSubmit")) <= 1
          /\ Cardinality(After(u, "onCancel")) <= 1
          /\ \A i \in After(u, "onSubmit") \cup After(u, "onCancel") :
                /\ calls[i].by = "submit"
                /\ \E n \in After(u, "netOk") : n < i
          /\ \A i \in After(u, "onSubmit") : \A n \in After(u, "netOk") :
                calls[i].arg = calls[n].arg
          /\ \A j \in After(u, "onCancel") :
                \E i \in After(u, "onSubmit") : i < j /\ ~calls[i].threw
          /\ After(u, "netOk") # {} => After(u, "onSubmit") # {}
\* the user cancelled with a submission in flight, which then succeeded:
\* onSubmit and a second onCancel have followed
C19_Witness ==
    \E u \in UserCancels :
        /\ After(u, "netOk") # {}
        /\ After(u, "onSubmit") # {}
        /\ After(u, "onCancel") # {}

====
